---- MODULE Spec2Model ----
(***************************************************************************)
(* Model of the guest lifecycle driver, fuzzer/src/guest.rs: LinuxQemu     *)
(* (boot with retry, liveness probe, run_cmd, try_collect_crash) together  *)
(* with the VM process it spawns and the non-blocking log pipe between     *)
(* the two.                                                                *)
(*                                                                         *)
(* One driver instance is modelled.  Its operations are called one at a    *)
(* time (they take &self / &mut self); the VM process runs concurrently:   *)
(* it writes to the pipe and may exit between any two steps of the driver. *)
(* A step of the driver is one statement or one await of the source; pc    *)
(* names the statement about to run.  When the program terminates (exits!  *)
(* or a panic) pc stays where it is, exit names the status and site the    *)
(* source line.                                                            *)
(*                                                                         *)
(* Spec      one constructed driver, its four operations and its VM.       *)
(* SpecNew   LinuxQemu::new (with build_qemu_cli) on every Config.         *)
(* SpecFleet several driver instances and the host ports they are given.   *)
(***************************************************************************)
EXTENDS Integers, Sequences, FiniteSets, TLC

\* ------------------------------------------------------------------ bounds

\* Capacity of the log pipe in bytes; stands for the 1 MiB of the source.
MaxPipe == 3

\* Number of VM processes a run may spawn (one per boot).
MaxSpawn == 2

\* Number of driver instances of a fleet.
MaxDrivers == 3

\* Number of host ports free_local_port may hand out.
MaxPorts == 3

\* --------------------------------------------------------------- constants

\* guest.rs:202  const MAX_RETRY: u8 = 5
MAX_RETRY == 5

\* guest.rs:160 and 389  the pipe is sized to 1024 * 1024 bytes
LINUX_QEMU_PIPE_LEN == MaxPipe

\* guest.rs:406  const BUF_LEN: usize = 1024 * 1024 (the same as the pipe)
BUF_LEN == MaxPipe

\* Option::None of handle: Option<Child> and rp: Option<PipeReader>;
\* a present value is the number of the process (pipe) it refers to.
None == 0

\* The bytes a VM may write to its console: an ASCII letter and 0xFF, a
\* byte that occurs in no valid UTF-8 text.
LogBytes == {65, 255}

\* One-byte-sequence validity as String::from_utf8 decides it on LogBytes:
\* bytes below 0x80 are one-byte characters, 0xFF never occurs.
Utf8Valid(s) == \A i \in 1..Len(s) : s[i] < 128

Min(a, b) == IF a < b THEN a ELSE b

\* ---------------------------------------------------------------- the pipe

\* read(2) on the non-blocking read end with a buffer of n bytes:
\* a zero-length read returns 0; buffered bytes are returned, at most n;
\* an empty pipe gives EAGAIN (WouldBlock) while a write end is open and
\* 0 (end of file) when every write end is closed.
PipeRead(buf, n, writersOpen) ==
    IF n = 0 THEN [kind |-> "ok", data |-> <<>>, rest |-> buf]
    ELSE IF Len(buf) > 0
         THEN [kind |-> "ok",
               data |-> SubSeq(buf, 1, Min(n, Len(buf))),
               rest |-> SubSeq(buf, Min(n, Len(buf)) + 1, Len(buf))]
    ELSE IF writersOpen
         THEN [kind |-> "wouldblock", data |-> <<>>, rest |-> buf]
    ELSE [kind |-> "ok", data |-> <<>>, rest |-> buf]

\* Read::read_to_end: read into the spare capacity of a growing vector
\* until a read returns 0; any error other than Interrupted is returned.
RECURSIVE ReadToEnd(_, _, _)
ReadToEnd(buf, writersOpen, acc) ==
    LET r == PipeRead(buf, Len(buf) + 1, writersOpen)
    IN  IF r.kind = "wouldblock" THEN [kind |-> "WouldBlock", data |-> acc]
        ELSE IF r.data = <<>> THEN [kind |-> "ok", data |-> acc]
        ELSE ReadToEnd(r.rest, writersOpen, acc \o r.data)

\* Read::read_to_string: read_to_end, then the bytes must be valid UTF-8
\* (InvalidData otherwise, and the string is left unchanged).
ReadToString(buf, writersOpen) ==
    LET r == ReadToEnd(buf, writersOpen, <<>>)
    IN  IF r.kind # "ok" THEN [kind |-> r.kind, data |-> <<>>]
        ELSE IF ~Utf8Valid(r.data) THEN [kind |-> "InvalidData", data |-> <<>>]
        ELSE r

\* ------------------------------------------------------------------- state

VARIABLES
    handle,     \* self.handle: None or the process it holds
    rp,         \* self.rp: None or the pipe whose read end it holds
    conf,       \* self.vm, wait_boot_time, addr, port, key, user
    pc,         \* the statement the driver is about to run; "idle" between calls
    op,         \* the operation in progress, or the last one
    exit,       \* "none" while the program runs; else the exit status or "PANIC"
    site,       \* source line of the exits! or panic that ended the program
    ret,        \* the value the last completed operation returned
    bhandle,    \* boot's local handle (line 210)
    brp,        \* boot's local rp (line 210)
    retry,      \* boot's local retry (line 227)
    count,      \* read_until_block's count (line 413)
    result,     \* read_until_block's bytes read so far (result[..count])
    crash_info, \* try_collect_crash's crash_info (line 306)
    app,        \* run_cmd's argument (its bin path, as components)
    pstate,     \* each VM process: "unborn", "running", "signalled", "dead"
    nspawn,     \* number of VM processes spawned so far
    pipeOf,     \* the process whose stdout/stderr feed the open pipe, or None
    pbuf,       \* bytes buffered in the open pipe
    diag,       \* what boot's failure path printed with eprintln!("{}", buf)
    effects,    \* processes run_cmd has run in this call: "scp", "ssh"
    logged,     \* history: bytes written to the latest pipe since it was
                \*   created or last drained to empty by read_until_block
    oldh,       \* history: self.handle when the boot in progress was called
    probes,     \* history: liveness probes run by the boot in progress, in order
    waits,      \* history: the delays (seconds) awaited by the boot in progress
    reports,    \* history: crash reports returned since the last completed boot
    timedOut,   \* history: a try_collect_crash of this session returned None
    probeRun,   \* history: what the ssh pwd of the is_alive call just made did
    released,   \* history: the processes the driver has killed or seen exited
    cfg,        \* the Config that LinuxQemu::new is given
    fleet       \* the driver instances of a fleet: how far each got, its port

drv == <<handle, rp, conf>>
ctl == <<pc, op, exit, site, ret>>
loc == <<bhandle, brp, retry, count, result, crash_info, app>>
env == <<pstate, nspawn, pipeOf, pbuf>>
out == <<diag, effects>>
hist == <<logged, oldh, probes, waits, reports, timedOut>>
aux == <<probeRun, released>>
ext == <<cfg, fleet>>
vars == <<drv, ctl, loc, env, out, hist, aux, ext>>

Procs == 1..MaxSpawn

Running == exit = "none"

\* The write ends of the open pipe are held by its process alone once boot's
\* Command is dropped (line 225); they close when the process is gone.
WritersOpen == pipeOf # None /\ pstate[pipeOf] # "dead"

\* Return values.
Unit == [kind |-> "unit", b |-> FALSE, s |-> <<>>]
Pending == [kind |-> "pending", b |-> FALSE, s |-> <<>>]
Bool(b) == [kind |-> "bool", b |-> b, s |-> <<>>]
NoCrash == [kind |-> "None", b |-> FALSE, s |-> <<>>]
SomeCrash(s) == [kind |-> "Some", b |-> FALSE, s |-> s]
ChildOf(a) == [kind |-> "Child", b |-> FALSE, s |-> a]

\* exits!(code, ...) and panic!/assert!: the program ends at line l.
Exits(code, l) == exit' = code /\ site' = l /\ UNCHANGED <<pc, op, ret>>

Panics(l) == Exits("PANIC", l)

\* ------------------------------------------------------------ the Config

\* A string as its words and the white space around them.
Platforms == {<<"qemu">>, <<" ", "qemu", " ">>, <<"real">>}

\* str::trim: leading and trailing white space removed.
RECURSIVE Trim(_)
Trim(s) ==
    IF s = <<>> THEN s
    ELSE IF Head(s) = " " THEN Trim(Tail(s))
    ELSE IF s[Len(s)] = " " THEN Trim(SubSeq(s, 1, Len(s) - 1))
    ELSE s

\* Option<u8>.
NoU8 == [some |-> FALSE, val |-> 0]

SomeU8(v) == [some |-> TRUE, val |-> v]

\* Option::unwrap_or.
UnwrapOr(o, d) == IF o.some THEN o.val ELSE d

\* cfg.qemu: Option<QemuConf>, of which wait_boot_time: Option<u8> matters.
QemuSegs ==
    {[some |-> FALSE, wait_boot_time |-> NoU8]}
    \cup {[some |-> TRUE, wait_boot_time |-> w] : w \in {NoU8, SomeU8(3)}}

\* cfg.ssh: Option<SSHConf>.
SshSegs ==
    {[some |-> FALSE, key_path |-> ""], [some |-> TRUE, key_path |-> "/id_rsa"]}

\* The Configs construction is tried on.
Configs ==
    [platform : Platforms, os : {"linux", "freebsd"}, arch : {"amd64", "arm64"},
     qemu : QemuSegs, ssh : SshSegs]

\* The config of a working setup: linux/amd64 on qemu, both segments.
GoodConfig ==
    [platform |-> <<"qemu">>, os |-> "linux", arch |-> "amd64",
     qemu |-> [some |-> TRUE, wait_boot_time |-> NoU8],
     ssh |-> [some |-> TRUE, key_path |-> "/id_rsa"]]

\* The targets QEMUS has a command template for (line 61).
QEMUS == {<<"linux", "amd64">>}

\* guest.rs:191  wait_boot_time.unwrap_or(5)
DEFAULT_WAIT_BOOT_TIME == 5

\* The fields Self { .. } of lines 186-196 takes from the config and from
\* build_qemu_cli; of the command template the forwarded port is kept.
SelfOf(port, key, wait) ==
    [vm |-> <<"qemu-system-x86_64", port>>, wait_boot_time |-> wait,
     addr |-> "localhost", port |-> port, key |-> key, user |-> "root"]

\* The fields before Self { .. } is built.
NoConf == SelfOf(0, "", 0)

\* No is_alive call has just been made.
NoRun == [kind |-> "none", after |-> 0, code |-> 0]

\* The driver instances of a fleet and the host ports they may be given.
Drivers == 1..MaxDrivers

HostPorts == 1..MaxPorts

\* No instance of the fleet has been constructed.
NoFleet == [d \in Drivers |-> [stage |-> "none", port |-> 0]]

\* LinuxQemu::new: no session; the connection data come from the config
\* and the leased port.
LinuxQemuNew(port, key, wait) ==
    /\ handle = None
    /\ rp = None
    /\ conf = SelfOf(port, key, wait)

\* No call has been made: no locals, no VM process, no pipe, no output.
Quiet ==
    /\ exit = "none" /\ site = 0 /\ ret = Unit
    /\ bhandle = None /\ brp = None /\ retry = 0
    /\ count = 0 /\ result = <<>> /\ crash_info = <<>> /\ app = <<>>
    /\ pstate = [p \in Procs |-> "unborn"] /\ nspawn = 0
    /\ pipeOf = None /\ pbuf = <<>>
    /\ diag = <<>> /\ effects = {}
    /\ logged = <<>> /\ oldh = None /\ probes = <<>> /\ waits = <<>>
    /\ reports = 0 /\ timedOut = FALSE
    /\ probeRun = NoRun /\ released = {}
    /\ fleet = NoFleet

Init ==
    /\ cfg = GoodConfig
    /\ LinuxQemuNew(10022, "/id_rsa", 5)
    /\ pc = "idle" /\ op = "new"
    /\ Quiet

\* --------------------------------------------------------- construction

\* LinuxQemu::new is called on some Config; nothing is built yet.
InitNew ==
    /\ cfg \in Configs
    /\ handle = None /\ rp = None /\ conf = NoConf
    /\ pc = "new_assert" /\ op = "new"
    /\ Quiet

\* Lines 176-178: the three assert_eq! on cfg.guest.
NewAssert ==
    /\ Running /\ pc = "new_assert"
    /\ IF Trim(cfg.platform) # <<"qemu">> THEN Panics(176)
       ELSE IF cfg.os # "linux" THEN Panics(177)
       ELSE IF cfg.arch # "amd64" THEN Panics(178)
       ELSE pc' = "build_target" /\ UNCHANGED <<op, exit, site, ret>>
    /\ UNCHANGED <<drv, loc, env, out, hist, aux, ext>>

\* build_qemu_cli, lines 320-325: the command template of the target,
\* exits!(CONFIG) when QEMUS has none.
BuildTarget ==
    /\ Running /\ pc = "build_target"
    /\ IF <<cfg.os, cfg.arch>> \notin QEMUS
       THEN Exits("CONFIG", 324)
       ELSE pc' = "build_port" /\ UNCHANGED <<op, exit, site, ret>>
    /\ UNCHANGED <<drv, loc, env, out, hist, aux, ext>>

\* Lines 327-328: port_check::free_local_port(), exits!(TEMPFAIL) when it
\* has none.  The port is kept in conf until line 186 builds Self.
BuildPort ==
    /\ Running /\ pc = "build_port"
    /\ \/ /\ \E p \in HostPorts : conf' = [conf EXCEPT !.port = p]
          /\ pc' = "build_qemu"
          /\ UNCHANGED <<op, exit, site, ret>>
       \/ /\ Exits("TEMPFAIL", 328)
          /\ UNCHANGED conf
    /\ UNCHANGED <<handle, rp, loc, env, out, hist, aux, ext>>

\* Lines 329-352: the qemu segment, exits!(SOFTWARE) when the config has
\* none; the template gets its per-run options, hostfwd=tcp::{port}-:22
\* among them.
BuildQemu ==
    /\ Running /\ pc = "build_qemu"
    /\ IF ~cfg.qemu.some
       THEN Exits("SOFTWARE", 332) /\ UNCHANGED conf
       ELSE /\ conf' = [conf EXCEPT !.vm = <<"qemu-system-x86_64", conf.port>>]
            /\ pc' = "new_ssh"
            /\ UNCHANGED <<op, exit, site, ret>>
    /\ UNCHANGED <<handle, rp, loc, env, out, hist, aux, ext>>

\* Lines 181-184: the ssh segment, exits!(CONFIG) when the config has none.
NewSsh ==
    /\ Running /\ pc = "new_ssh"
    /\ IF ~cfg.ssh.some
       THEN Exits("CONFIG", 184)
       ELSE pc' = "new_self" /\ UNCHANGED <<op, exit, site, ret>>
    /\ UNCHANGED <<drv, loc, env, out, hist, aux, ext>>

\* Lines 186-196: Self { .. }; new returns.
NewSelf ==
    /\ Running /\ pc = "new_self"
    /\ handle' = None /\ rp' = None
    /\ conf' = SelfOf(conf.port, cfg.ssh.key_path,
                      UnwrapOr(cfg.qemu.wait_boot_time, DEFAULT_WAIT_BOOT_TIME))
    /\ pc' = "idle" /\ ret' = Unit
    /\ UNCHANGED <<op, exit, site, loc, env, out, hist, aux, ext>>

New == NewAssert \/ BuildTarget \/ BuildPort \/ BuildQemu \/ NewSsh \/ NewSelf

SpecNew == InitNew /\ [][New]_vars

\* ------------------------------------------------------------ the VM side

\* The VM writes one byte to its stdout or stderr.  The write ends are
\* non-blocking (line 397): a write to a full pipe fails and adds nothing.
VmWrite(b) ==
    /\ Running
    /\ WritersOpen
    /\ Len(pbuf) < LINUX_QEMU_PIPE_LEN
    /\ pbuf' = Append(pbuf, b)
    /\ logged' = Append(logged, b)
    /\ UNCHANGED <<drv, ctl, loc, pstate, nspawn, pipeOf, out, oldh, probes,
                   waits, reports, timedOut>>
    /\ UNCHANGED <<aux, ext>>

\* A VM process goes away: the guest panicked (-no-reboot), it was
\* terminated out of band, or a SIGKILL sent earlier takes effect.
VmExit(p) ==
    /\ Running
    /\ pstate[p] \in {"running", "signalled"}
    /\ pstate' = [pstate EXCEPT ![p] = "dead"]
    /\ UNCHANGED <<drv, ctl, loc, nspawn, pipeOf, pbuf, out, hist>>
    /\ UNCHANGED <<aux, ext>>

\* Kill with the signal not sent.
Kill_Noop(p) == pstate

\* Child::kill: SIGKILL is sent; the process is gone only later (VmExit).
Kill(p) == [pstate EXCEPT ![p] = IF @ = "running" THEN "signalled" ELSE @]

\* ------------------------------------------------------------ is_alive

\* An ssh to the leased port is answered only by a VM of this driver that
\* has not gone away.
Reachable == \E p \in Procs : pstate[p] \in {"running", "signalled"}

\* guest.rs:267  timeout(Duration::new(10, 0), ...)
PROBE_TIMEOUT == 10

\* Seconds after which an ssh pwd may exit: well within the timeout, and
\* after it (which also stands for a process that never exits).
PwdExitsAfter == {1, 60}

\* What the ssh pwd of line 267 may do: it cannot be spawned, or it runs
\* and exits after some seconds with a status: 0 only when the VM answers,
\* 255 (ssh's own failure status) otherwise or when the connection fails.
PwdRuns ==
    {[kind |-> "spawn_err", after |-> 0, code |-> 0]}
    \cup {[kind |-> "ran", after |-> t, code |-> c] :
            t \in PwdExitsAfter,
            c \in (IF Reachable THEN {0} ELSE {}) \cup {255}}

\* IsAliveOf with a completed probe taken as success whatever its status.
IsAliveOf_AnyStatus(run) ==
    IF run.kind = "spawn_err" THEN "oserr"
    ELSE IF run.after >= PROBE_TIMEOUT THEN "false"
    ELSE "true"

\* Lines 267-273: Err(_) of the timeout is false; a status is its
\* success(); an error of status() is exits!(OSERR) (line 271).
IsAliveOf(run) ==
    IF run.kind = "spawn_err" THEN "oserr"
    ELSE IF run.after >= PROBE_TIMEOUT THEN "false"
    ELSE IF run.code = 0 THEN "true"
    ELSE "false"

\* is_alive, lines 255-274: the remote pwd exits 0 within 10 s ("true"),
\* it times out or exits nonzero ("false"), or ssh cannot be spawned
\* ("oserr": exits!(OSERR), line 271).
IsAliveOutcomes == {IsAliveOf(run) : run \in PwdRuns}

\* ---------------------------------------------------------------- boot

\* boot is called (line 201); line 204 tests self.handle.
BootCall ==
    /\ Running /\ pc = "idle"
    /\ nspawn < MaxSpawn
    /\ op' = "boot" /\ ret' = Pending
    /\ pc' = IF handle # None THEN "boot_kill" ELSE "boot_spawn"
    /\ oldh' = handle /\ probes' = <<>> /\ waits' = <<>>
    /\ UNCHANGED <<drv, exit, site, loc, env, out, logged, reports, timedOut>>
    /\ probeRun' = NoRun
    /\ UNCHANGED <<released, ext>>

\* BootKillOld with the kill of line 205 left out.
BootKillOld_NoKill ==
    /\ Running /\ pc = "boot_kill"
    /\ pc' = "boot_drop"
    /\ UNCHANGED <<drv, op, exit, site, ret, loc, env, out, hist, aux, ext>>

\* Lines 205-206: h.kill(), fatal when it fails.
BootKillOld ==
    /\ Running /\ pc = "boot_kill"
    /\ \E ok \in BOOLEAN :
         IF ok
         THEN /\ pstate' = Kill(handle)
              /\ released' = released \cup {handle}
              /\ pc' = "boot_drop"
              /\ UNCHANGED <<op, exit, site, ret>>
         ELSE /\ Exits("OSERR", 206)
              /\ UNCHANGED <<pstate, released>>
    /\ UNCHANGED <<drv, loc, nspawn, pipeOf, pbuf, out, hist>>
    /\ UNCHANGED <<probeRun, ext>>

\* BootDropRp with line 207 left out: the old reader stays in self.rp.
BootDropRp_KeepRp ==
    /\ Running /\ pc = "boot_drop"
    /\ pc' = "boot_spawn"
    /\ UNCHANGED <<drv, op, exit, site, ret, loc, env, out, hist>>
    /\ UNCHANGED <<aux, ext>>

\* Line 207: self.rp = None drops the reader; the pipe's read end closes
\* and whatever it buffered is gone.
BootDropRp ==
    /\ Running /\ pc = "boot_drop"
    /\ rp' = None
    /\ pipeOf' = None /\ pbuf' = <<>>
    /\ pc' = "boot_spawn"
    /\ UNCHANGED <<handle, conf, op, exit, site, ret, loc, pstate, nspawn, out,
                   hist>>
    /\ UNCHANGED <<aux, ext>>

\* Where lines 210-225 end the program: pipe(), the three fcntl calls of
\* long_pipe, try_clone, spawn.
SpawnFailSites == {388, 389, 397, 399, 215, 222}

\* BootSpawn leasing another port on every boot: self.port and the
\* template's forward are rewritten.
BootSpawn_NewPort ==
    /\ Running /\ pc = "boot_spawn"
    /\ \/ /\ nspawn' = nspawn + 1
          /\ pstate' = [pstate EXCEPT ![nspawn + 1] = "running"]
          /\ pipeOf' = nspawn + 1 /\ pbuf' = <<>> /\ logged' = <<>>
          /\ bhandle' = nspawn + 1 /\ brp' = nspawn + 1
          /\ retry' = 1
          /\ pc' = "boot_delay"
          /\ UNCHANGED <<op, exit, site, ret>>
       \/ /\ \E l \in SpawnFailSites : Exits("OSERR", l)
          /\ UNCHANGED <<env, bhandle, brp, retry, logged>>
    /\ conf' = [conf EXCEPT !.port = @ + 1,
                            !.vm = <<"qemu-system-x86_64", conf.port + 1>>]
    /\ UNCHANGED <<handle, rp, count, result, crash_info, app, out, oldh, probes,
                   waits, reports, timedOut>>
    /\ UNCHANGED <<aux, ext>>

\* Lines 210-227: a new pipe, the VM spawned with both write ends, the
\* Command (and the parent's write ends) dropped, retry = 1.
BootSpawn ==
    /\ Running /\ pc = "boot_spawn"
    /\ \/ /\ nspawn' = nspawn + 1
          /\ pstate' = [pstate EXCEPT ![nspawn + 1] = "running"]
          /\ pipeOf' = nspawn + 1 /\ pbuf' = <<>> /\ logged' = <<>>
          /\ bhandle' = nspawn + 1 /\ brp' = nspawn + 1
          /\ retry' = 1
          /\ pc' = "boot_delay"
          /\ UNCHANGED <<op, exit, site, ret>>
       \/ /\ \E l \in SpawnFailSites : Exits("OSERR", l)
          /\ UNCHANGED <<env, bhandle, brp, retry, logged>>
    /\ UNCHANGED <<drv, count, result, crash_info, app, out, oldh, probes,
                   waits, reports, timedOut>>
    /\ UNCHANGED <<aux, ext>>

\* Line 229: delay_for(Duration::new(self.wait_boot_time as u64, 0)).
BootDelay ==
    /\ Running /\ pc = "boot_delay"
    /\ pc' = "boot_probe"
    /\ waits' = Append(waits, conf.wait_boot_time)
    /\ UNCHANGED <<drv, op, exit, site, ret, loc, env, out, logged, oldh,
                   probes, reports, timedOut>>
    /\ UNCHANGED <<aux, ext>>

\* BudgetExhausted comparing one attempt late.
BudgetExhausted_Late(r) == r > MAX_RETRY

\* Line 235: retry == MAX_RETRY.
BudgetExhausted(r) == r = MAX_RETRY

\* Lines 231-247: the probe; break on success, the failure path when the
\* budget is used up, otherwise retry += 1 and loop.  Line 250 then
\* enters read_until_block (lines 406-413: an empty result, count = 0).
BootProbe ==
    /\ Running /\ pc = "boot_probe"
    /\ \E r \in IsAliveOutcomes :
         CASE r = "true" ->
                /\ probes' = Append(probes, TRUE)
                /\ pc' = "drain"
                /\ count' = 0 /\ result' = <<>>
                /\ UNCHANGED <<retry, op, exit, site, ret>>
           [] r = "false" ->
                /\ probes' = Append(probes, FALSE)
                /\ IF BudgetExhausted(retry)
                   THEN pc' = "boot_fail_kill" /\ UNCHANGED retry
                   ELSE pc' = "boot_delay" /\ retry' = retry + 1
                /\ UNCHANGED <<count, result, op, exit, site, ret>>
           [] r = "oserr" ->
                /\ Exits("OSERR", 271)
                /\ UNCHANGED <<probes, retry, count, result>>
    /\ UNCHANGED <<drv, bhandle, brp, crash_info, app, env, out, logged, oldh,
                   waits, reports, timedOut>>
    /\ UNCHANGED <<aux, ext>>

\* Lines 236-238: handle.kill() on the new process.
BootFailKill ==
    /\ Running /\ pc = "boot_fail_kill"
    /\ \E ok \in BOOLEAN :
         IF ok
         THEN /\ pstate' = Kill(bhandle)
              /\ released' = released \cup {bhandle}
              /\ pc' = "boot_fail_read"
              /\ UNCHANGED <<op, exit, site, ret>>
         ELSE /\ Exits("OSERR", 238)
              /\ UNCHANGED <<pstate, released>>
    /\ UNCHANGED <<drv, loc, nspawn, pipeOf, pbuf, out, hist>>
    /\ UNCHANGED <<probeRun, ext>>

\* Lines 239-245: rp.read_to_string(&mut buf), fatal (OSERR) on any error;
\* then the log is printed and the program exits with DATAERR.
BootFailRead ==
    /\ Running /\ pc = "boot_fail_read"
    /\ LET r == ReadToString(pbuf, WritersOpen)
       IN  IF r.kind = "ok"
           THEN diag' = Append(diag, r.data) /\ Exits("DATAERR", 245)
           ELSE UNCHANGED diag /\ Exits("OSERR", 241)
    /\ pbuf' = <<>>
    /\ UNCHANGED <<drv, loc, pstate, nspawn, pipeOf, effects, hist>>
    /\ UNCHANGED <<aux, ext>>

\* read_until_block, lines 414-432, one turn of its loop: read into what
\* is left of the BUF_LEN buffer; Ok(n) must not be 0 (line 417);
\* WouldBlock ends the loop and the count bytes read are returned; any
\* other error panics (line 424).
DrainRead ==
    /\ Running /\ pc = "drain"
    /\ \/ LET r == PipeRead(pbuf, BUF_LEN - count, WritersOpen)
          IN  CASE r.kind = "ok" /\ r.data = <<>> ->
                     /\ Panics(417)
                     /\ UNCHANGED <<count, result, pbuf, logged>>
                [] r.kind = "ok" /\ r.data # <<>> ->
                     /\ count' = count + Len(r.data)
                     /\ result' = result \o r.data
                     /\ pbuf' = r.rest
                     /\ UNCHANGED <<ctl, logged>>
                [] r.kind = "wouldblock" ->
                     /\ result' = SubSeq(result, 1, count)
                     /\ pc' = "boot_store_handle"
                     /\ logged' = <<>>
                     /\ UNCHANGED <<count, pbuf, op, exit, site, ret>>
       \/ /\ Panics(424)
          /\ UNCHANGED <<count, result, pbuf, logged>>
    /\ UNCHANGED <<drv, bhandle, brp, retry, crash_info, app, pstate, nspawn,
                   pipeOf, out, oldh, probes, waits, reports, timedOut>>
    /\ UNCHANGED <<aux, ext>>

\* Line 251: self.handle = Some(handle); the Child it replaces is dropped
\* and, being kill_on_drop, killed.  The drained bytes of line 250 are
\* dropped.
BootStoreHandle ==
    /\ Running /\ pc = "boot_store_handle"
    /\ handle' = bhandle /\ bhandle' = None
    /\ pstate' = IF handle # None THEN Kill(handle) ELSE pstate
    /\ released' = IF handle # None THEN released \cup {handle} ELSE released
    /\ count' = 0 /\ result' = <<>>
    /\ pc' = "boot_store_rp"
    /\ UNCHANGED <<rp, conf, op, exit, site, ret, brp, retry, crash_info, app,
                   nspawn, pipeOf, pbuf, out, hist>>
    /\ UNCHANGED <<probeRun, ext>>

\* BootStoreRp with line 252 left out: boot returns and the new reader is
\* dropped.
BootStoreRp_NoStore ==
    /\ Running /\ pc = "boot_store_rp"
    /\ brp' = None
    /\ pipeOf' = None /\ pbuf' = <<>>
    /\ pc' = "idle" /\ ret' = Unit
    /\ reports' = 0 /\ timedOut' = FALSE
    /\ UNCHANGED <<drv, op, exit, site, bhandle, retry, count, result,
                   crash_info, app, pstate, nspawn, out, logged, oldh, probes,
                   waits, aux, ext>>

\* Lines 252-253: self.rp = Some(rp); boot returns.
BootStoreRp ==
    /\ Running /\ pc = "boot_store_rp"
    /\ rp' = brp /\ brp' = None
    /\ pc' = "idle" /\ ret' = Unit
    /\ reports' = 0 /\ timedOut' = FALSE
    /\ UNCHANGED <<handle, conf, op, exit, site, bhandle, retry, count, result,
                   crash_info, app, env, out, logged, oldh, probes, waits>>
    /\ UNCHANGED <<aux, ext>>

Boot ==
    \/ BootCall \/ BootKillOld \/ BootDropRp \/ BootSpawn \/ BootDelay
    \/ BootProbe \/ BootFailKill \/ BootFailRead \/ DrainRead
    \/ BootStoreHandle \/ BootStoreRp


\* ------------------------------------------------------------- is_alive

\* is_alive called by the harness (lines 255-274); it takes &self and
\* stores nothing.
IsAlive ==
    /\ Running /\ pc = "idle"
    /\ op' = "is_alive"
    /\ \E run \in PwdRuns :
         /\ probeRun' = run
         /\ IF IsAliveOf(run) = "oserr"
            THEN exit' = "OSERR" /\ site' = 271 /\ ret' = Pending
            ELSE /\ ret' = Bool(IsAliveOf(run) = "true")
                 /\ UNCHANGED <<exit, site>>
    /\ UNCHANGED <<drv, pc, loc, env, out, hist>>
    /\ UNCHANGED <<released, ext>>

\* -------------------------------------------------------------- run_cmd

\* The binaries run_cmd is given, as path components.
Apps == {<<"bin", "exe">>, <<"bin", "..">>}

\* Path::file_name: the last component, none when the path ends in "..".
FileName(path) ==
    IF path = <<>> \/ path[Len(path)] = ".."
    THEN [some |-> FALSE, name |-> ""]
    ELSE [some |-> TRUE, name |-> path[Len(path)]]

\* run_cmd is called with an app (line 276).
RunCmdCall ==
    /\ Running /\ pc = "idle"
    /\ op' = "run_cmd" /\ ret' = Pending
    /\ \E a \in Apps : app' = a
    /\ effects' = {}
    /\ pc' = "rc_assert"
    /\ UNCHANGED <<drv, exit, site, bhandle, brp, retry, count, result,
                   crash_info, env, diag, hist>>
    /\ probeRun' = NoRun
    /\ UNCHANGED <<released, ext>>

\* HasSession with the assertion of line 277 left out.
HasSession_Unchecked == TRUE

\* Line 277: assert!(self.handle.is_some()).
HasSession == handle # None

RcAssert ==
    /\ Running /\ pc = "rc_assert"
    /\ IF HasSession
       THEN pc' = "rc_scp" /\ UNCHANGED <<op, exit, site, ret>>
       ELSE Panics(277)
    /\ UNCHANGED <<drv, loc, env, out, hist>>
    /\ UNCHANGED <<aux, ext>>

\* Line 281, scp (lines 368-380): the scp command is run with
\* output().await; it cannot be spawned (panic, line 380), or it runs and
\* run_cmd waits for it to exit.
RcScp ==
    /\ Running /\ pc = "rc_scp"
    /\ \/ Panics(380) /\ UNCHANGED effects
       \/ /\ effects' = effects \cup {"scp"}
          /\ pc' = "rc_scp_wait"
          /\ UNCHANGED <<op, exit, site, ret>>
    /\ UNCHANGED <<drv, loc, env, diag, hist>>
    /\ UNCHANGED <<aux, ext>>

\* The scp process exits, with success or not; only then is the future of
\* output() (lines 376-379, no timeout around it) ready.
ScpExit(ok) ==
    /\ Running /\ pc = "rc_scp_wait"
    /\ pc' = IF ok THEN "rc_scp_ok" ELSE "rc_scp_failed"
    /\ UNCHANGED <<drv, op, exit, site, ret, loc, env, out, hist, aux, ext>>

\* Lines 382-384: a status that is not success panics with scp's stderr;
\* otherwise scp returns and run_cmd goes on at line 283.
RcScpDone ==
    /\ Running /\ pc \in {"rc_scp_ok", "rc_scp_failed"}
    /\ IF pc = "rc_scp_failed"
       THEN Panics(383)
       ELSE pc' = "rc_spawn" /\ UNCHANGED <<op, exit, site, ret>>
    /\ UNCHANGED <<drv, loc, env, out, hist, aux, ext>>

\* Lines 283-297: the bin becomes ~/<file name> (DATAERR without one),
\* the ssh command is spawned (OSERR when that fails) and returned.
RcSpawn ==
    /\ Running /\ pc = "rc_spawn"
    /\ IF ~FileName(app).some
       THEN Exits("DATAERR", 286) /\ UNCHANGED effects
       ELSE \/ Exits("OSERR", 297) /\ UNCHANGED effects
            \/ /\ effects' = effects \cup {"ssh"}
               /\ ret' = ChildOf(<<"~", FileName(app).name>>)
               /\ pc' = "idle"
               /\ UNCHANGED <<op, exit, site>>
    /\ UNCHANGED <<drv, loc, env, diag, hist>>
    /\ UNCHANGED <<aux, ext>>

RunCmd == RunCmdCall \/ RcAssert \/ RcScp \/ RcScpDone \/ RcSpawn

Scp == \E ok \in BOOLEAN : ScpExit(ok)

\* ---------------------------------------------------- try_collect_crash

\* try_collect_crash is called (line 300).
TccCall ==
    /\ Running /\ pc = "idle"
    /\ op' = "try_collect_crash" /\ ret' = Pending
    /\ pc' = "tcc_assert"
    /\ UNCHANGED <<drv, exit, site, loc, env, out, hist>>
    /\ probeRun' = NoRun
    /\ UNCHANGED <<released, ext>>

\* Line 301: assert!(self.rp.is_some()); line 302: self.handle
\* .as_mut().unwrap().
TccAssert ==
    /\ Running /\ pc = "tcc_assert"
    /\ IF rp = None THEN Panics(301)
       ELSE IF handle = None THEN Panics(302)
       ELSE pc' = "tcc_wait" /\ UNCHANGED <<op, exit, site, ret>>
    /\ UNCHANGED <<drv, loc, env, out, hist>>
    /\ UNCHANGED <<aux, ext>>

\* The Child future of line 302 is ready once the process has exited.
Exited(p) == pstate[p] = "dead"

\* TccWait taking the handle out of self before it waits, so that a
\* timeout loses it.
TccWait_TakesHandle ==
    /\ Running /\ pc = "tcc_wait"
    /\ handle' = None
    /\ IF Exited(handle)
       THEN /\ released' = released \cup {handle}
            /\ crash_info' = <<>>
            /\ pc' = "tcc_read"
            /\ UNCHANGED <<ret, timedOut>>
       ELSE /\ ret' = NoCrash
            /\ timedOut' = TRUE
            /\ pc' = "idle"
            /\ UNCHANGED <<crash_info, released>>
    /\ UNCHANGED <<rp, conf, op, exit, site, bhandle, brp, retry, count,
                   result, app, env, out, logged, oldh, probes, waits,
                   reports>>
    /\ UNCHANGED <<probeRun, ext>>

\* Lines 302-306: the 2 s wait.  Not exited: None is returned (line 303).
\* Exited: self.handle = None and an empty crash_info.
TccWait ==
    /\ Running /\ pc = "tcc_wait"
    /\ IF Exited(handle)
       THEN /\ handle' = None
            /\ released' = released \cup {handle}
            /\ crash_info' = <<>>
            /\ pc' = "tcc_read"
            /\ UNCHANGED <<ret, timedOut>>
       ELSE /\ ret' = NoCrash
            /\ timedOut' = TRUE
            /\ pc' = "idle"
            /\ UNCHANGED <<handle, crash_info, released>>
    /\ UNCHANGED <<rp, conf, op, exit, site, bhandle, brp, retry, count,
                   result, app, env, out, logged, oldh, probes, waits,
                   reports>>
    /\ UNCHANGED <<probeRun, ext>>

\* TccRead with the read of lines 307-311 left out.
TccRead_NoRead ==
    /\ Running /\ pc = "tcc_read"
    /\ pc' = "tcc_clear"
    /\ UNCHANGED <<drv, op, exit, site, ret, loc, env, out, hist, aux, ext>>

\* Lines 307-311: read_to_string on the reader, fatal (OSERR) on any error.
TccRead ==
    /\ Running /\ pc = "tcc_read"
    /\ LET r == ReadToString(pbuf, WritersOpen)
       IN  IF r.kind = "ok"
           THEN /\ crash_info' = r.data
                /\ pc' = "tcc_clear"
                /\ UNCHANGED <<op, exit, site, ret>>
           ELSE /\ Exits("OSERR", 311)
                /\ UNCHANGED crash_info
    /\ pbuf' = <<>>
    /\ UNCHANGED <<drv, bhandle, brp, retry, count, result, app, pstate,
                   nspawn, pipeOf, out, hist>>
    /\ UNCHANGED <<aux, ext>>

\* TccClear with line 312 left out: the reader stays in self.rp.
TccClear_KeepRp ==
    /\ Running /\ pc = "tcc_clear"
    /\ ret' = SomeCrash(crash_info) /\ crash_info' = <<>>
    /\ reports' = reports + 1
    /\ pc' = "idle"
    /\ UNCHANGED <<drv, op, exit, site, bhandle, brp, retry, count,
                   result, app, env, out, logged, oldh, probes, waits,
                   timedOut>>
    /\ UNCHANGED <<aux, ext>>

\* Lines 312-313: self.rp = None (the read end closes), Some(crash_info).
TccClear ==
    /\ Running /\ pc = "tcc_clear"
    /\ rp' = None
    /\ pipeOf' = None /\ pbuf' = <<>>
    /\ ret' = SomeCrash(crash_info) /\ crash_info' = <<>>
    /\ reports' = reports + 1
    /\ pc' = "idle"
    /\ UNCHANGED <<handle, conf, op, exit, site, bhandle, brp, retry, count,
                   result, app, pstate, nspawn, out, logged, oldh, probes,
                   waits, timedOut>>
    /\ UNCHANGED <<aux, ext>>

TryCollectCrash == TccCall \/ TccAssert \/ TccWait \/ TccRead \/ TccClear

Vm == (\E b \in LogBytes : VmWrite(b)) \/ (\E p \in Procs : VmExit(p))

\* The steps the driver takes by itself: what it awaits is ready or has
\* timed out.
Driver == Boot \/ IsAlive \/ RunCmd \/ TryCollectCrash

Next == Driver \/ Vm \/ Scp

Spec == Init /\ [][Next]_vars

\* ------------------------------------------------ several driver instances

\* The host ports a VM of the fleet listens on: QEMU binds the forwarded
\* port (hostfwd, line 345) when boot spawns it (line 222).
BoundPorts == {fleet[d].port : d \in {e \in Drivers : fleet[e].stage = "booted"}}

\* port_check::free_local_port (line 327): a port nothing listens on at
\* the time of the call.  It returns a u16; nothing holds the port for the
\* caller afterwards.
FreeLocalPort == HostPorts \ BoundPorts

\* LinuxQemu::new of instance d: the port of line 327 goes into the
\* command template and into self.port (line 193); exits!(TEMPFAIL)
\* without one.
FleetNew(d) ==
    /\ fleet[d].stage = "none"
    /\ IF FreeLocalPort = {}
       THEN fleet' = [fleet EXCEPT ![d].stage = "tempfail"]
       ELSE \E p \in FreeLocalPort :
              fleet' = [fleet EXCEPT ![d] = [stage |-> "built", port |-> p]]
    /\ UNCHANGED <<drv, ctl, loc, env, out, hist, aux, cfg>>

\* boot of instance d spawns its VM (line 222), which forwards self.port
\* unless another VM already listens on it.
FleetBoot(d) ==
    /\ fleet[d].stage = "built"
    /\ fleet' = [fleet EXCEPT ![d].stage =
                   IF fleet[d].port \in BoundPorts THEN "clash" ELSE "booted"]
    /\ UNCHANGED <<drv, ctl, loc, env, out, hist, aux, cfg>>

NextFleet == \E d \in Drivers : FleetNew(d) \/ FleetBoot(d)

SpecFleet == Init /\ [][NextFleet]_vars

\* ============================================================ properties

Paired == (handle # None) <=> (rp # None)

\* boot between its line 207 and its line 251.
BootMid == {"boot_spawn", "boot_delay", "boot_probe", "boot_fail_kill",
            "boot_fail_read", "drain", "boot_store_handle"}

AllFailed(ps) == \A i \in 1..Len(ps) : ~ps[i]

\* ---- C1 -----------------------------------------------------------------
\* C1 as stated: in every reachable state, the states inside boot and
\* inside try_collect_crash included, the process handle is present iff
\* the log reader is present.
C1_PairedAtAllTimes == Paired

\* C1 amended: the handle is present iff the reader is present in every
\* state outside two windows.  Inside boot, from the discard of the old
\* reader (line 207) to the final store (line 252), the reader is absent
\* while the handle still holds the old process (up to line 251) or
\* already the new one (after line 251).  Inside try_collect_crash,
\* between lines 305 and 312, the handle is absent and the reader present.
C1_PairedOutsideWindows ==
    /\ pc \in BootMid => rp = None /\ handle = oldh
    /\ pc = "boot_store_rp" => rp = None /\ handle # None
    /\ pc \in {"tcc_read", "tcc_clear"} => handle = None /\ rp # None
    /\ pc \notin BootMid \cup {"boot_store_rp", "tcc_read", "tcc_clear"}
         => Paired

\* A second boot has replaced a session and returned with the pair present.
C1_Witness ==
    /\ pc = "idle" /\ op = "boot" /\ oldh # None
    /\ handle # None /\ rp # None

\* ---- C2 -----------------------------------------------------------------
\* C2: when boot's five probes have all failed and boot has killed the new
\* process, the program ends with the data-error status and the printed
\* diagnostic holds all bytes written to the log pipe, whether or not the
\* killed process is gone when the pipe is read.
C2_BootFailureReportsLog ==
    (op = "boot" /\ pc = "boot_fail_read" /\ ~Running)
      => /\ Len(probes) = MAX_RETRY /\ AllFailed(probes)
         /\ pstate[bhandle] \in {"signalled", "dead"}
         /\ exit = "DATAERR"
         /\ diag = <<logged>>

\* ---- C3 -----------------------------------------------------------------
\* C3: once try_collect_crash has seen the VM process exit within its
\* wait, it returns a report (the program does not end instead), the
\* report is exactly the bytes written to the log since the drain at the
\* end of boot, and the session is cleared.
C3_ExitYieldsExactReport ==
    /\ (op = "try_collect_crash" /\ pc \in {"tcc_read", "tcc_clear"})
         => Running
    /\ (op = "try_collect_crash" /\ pc = "idle" /\ ret.kind = "Some")
         => ret.s = logged /\ handle = None /\ rp = None

\* ---- C4 -----------------------------------------------------------------
\* C4: when try_collect_crash ends its wait and the VM process has not
\* exited, it returns None and the session stays as it was: handle and
\* reader are unchanged and present, and no log byte is consumed.
C4_TimeoutKeepsSession ==
    [][(pc = "tcc_wait" /\ pc' # "tcc_wait" /\ ~Exited(handle))
         => /\ pc' = "idle" /\ ret' = NoCrash /\ exit' = "none"
            /\ handle' = handle /\ handle' # None
            /\ rp' = rp /\ rp' # None
            /\ pbuf' = pbuf /\ pipeOf' = pipeOf /\ logged' = logged]_vars

\* A call returned None and a later call of the same session returned the
\* report, with bytes in it.
C4_Witness ==
    /\ pc = "idle" /\ op = "try_collect_crash"
    /\ timedOut /\ ret.kind = "Some" /\ ret.s # <<>>

\* ---- C5 -----------------------------------------------------------------
\* C5: a session yields at most one crash report.  Once a report has been
\* returned and until a boot has completed, no try_collect_crash gets past
\* its assertion of line 301, so none returns a report or any other value.
C5_OneReportPerSession ==
    /\ reports <= 1
    /\ reports = 1 => pc \notin {"tcc_wait", "tcc_read", "tcc_clear"}
    /\ (reports = 1 /\ op = "try_collect_crash" /\ ~Running) => site = 301

\* A second try_collect_crash after a report has failed its assertion.
C5_Witness ==
    reports = 1 /\ op = "try_collect_crash" /\ exit = "PANIC" /\ site = 301

\* ---- C6 -----------------------------------------------------------------
\* C6: run_cmd invoked without a session (before the first boot, or after
\* a report and no boot since) gets no further than its assertion of line
\* 277: it has run neither scp nor ssh, and it ends by that panic.
C6_RunCmdNeedsSession ==
    (op = "run_cmd" /\ (handle = None \/ rp = None))
      => /\ pc = "rc_assert"
         /\ effects = {}
         /\ ~Running => exit = "PANIC" /\ site = 277

\* run_cmd after a crash report and without a boot has panicked at line 277.
C6_Witness ==
    /\ op = "run_cmd" /\ exit = "PANIC" /\ site = 277
    /\ reports = 1 /\ nspawn > 0

\* ---- C7 -----------------------------------------------------------------
\* C7: boot runs at most MAX_RETRY = 5 probes, each after a wait of its
\* own of wait_boot_time seconds; no probe follows a successful one; the
\* failure path is entered only after exactly 5 failed probes, and boot
\* goes on to the drain only after a successful one.
C7_RetryBudget ==
    op = "boot" =>
      /\ Len(probes) <= MAX_RETRY
      /\ AllFailed(SubSeq(probes, 1, Len(probes) - 1))
      /\ Len(waits) = Len(probes) + (IF pc = "boot_probe" THEN 1 ELSE 0)
      /\ \A i \in 1..Len(waits) : waits[i] = conf.wait_boot_time
      /\ pc \in {"boot_fail_kill", "boot_fail_read"}
           => Len(probes) = MAX_RETRY /\ AllFailed(probes)
      /\ pc \in {"drain", "boot_store_handle", "boot_store_rp", "idle"}
           => probes # <<>> /\ probes[Len(probes)]
      /\ pc = "boot_delay" => Len(probes) < MAX_RETRY /\ AllFailed(probes)

\* The budget is used up: five probes have failed.
C7_Witness ==
    op = "boot" /\ pc = "boot_fail_kill" /\ Len(probes) = MAX_RETRY

\* ---- C8 -----------------------------------------------------------------
\* C8: a boot that finds a session has killed the old process and closed
\* the old reader, unread, before it spawns; its locals are the process
\* and pipe it spawned; and when it returns, self.handle and self.rp are
\* that process and its pipe, not the old ones.
C8_BootReplacesSession ==
    op = "boot" =>
      /\ (oldh # None /\ pc \notin {"boot_kill", "boot_drop"})
           => /\ pstate[oldh] \in {"signalled", "dead"}
              /\ rp # oldh /\ pipeOf # oldh
      /\ pc \in {"boot_kill", "boot_drop", "boot_spawn"}
           => /\ bhandle = None /\ brp = None
              /\ count = 0 /\ result = <<>> /\ diag = <<>>
      /\ pc \in BootMid \ {"boot_spawn"}
           => bhandle = nspawn /\ brp = nspawn /\ bhandle # oldh
      /\ pc = "idle"
           => /\ handle = nspawn /\ rp = nspawn /\ pipeOf = nspawn
              /\ handle # oldh

\* A boot that replaced a session has returned.
C8_Witness ==
    /\ op = "boot" /\ pc = "idle" /\ oldh # None
    /\ handle = nspawn /\ pstate[oldh] = "dead" /\ pstate[handle] = "running"

\* ---- C9 -----------------------------------------------------------------
\* C9: after a successful probe boot drains the pipe and stores the new
\* session whatever the pipe holds (nothing, some bytes, its full
\* capacity, or end of file): short of an unexpected read error (line
\* 424) the program does not end there; and boot has returned only after
\* a successful probe and with the session present.
C9_SuccessfulProbeStoresSession ==
    /\ (op = "boot" /\ probes # <<>> /\ probes[Len(probes)] /\ site # 424)
         => Running
    /\ (op = "boot" /\ pc = "idle")
         => probes # <<>> /\ probes[Len(probes)] /\ handle # None /\ rp # None

\* ---- C10 ----------------------------------------------------------------
\* C10: read_until_block entered on a pipe that buffers nothing returns an
\* empty result at its first read: it neither waits nor ends the program
\* (short of an unexpected read error, line 424).
C10_DrainOfEmptyPipe ==
    [][(/\ pc = "drain" /\ count = 0 /\ pbuf = <<>>
        /\ (pc' # pc \/ exit' # exit) /\ site' # 424)
         => /\ pc' = "boot_store_handle"
            /\ result' = <<>>
            /\ exit' = "none"]_vars

\* ---- C11 ----------------------------------------------------------------
\* C11: read_until_block on a pipe whose write end is open, for every
\* amount of buffered data from nothing up to the full capacity: what it
\* has read so far is, in order, a prefix of what was written, with the
\* rest still buffered; it goes on until a read would block and it does
\* not end the program at its line 417.
C11_DrainReturnsBuffered ==
    /\ pc \in {"drain", "boot_store_handle"} => count = Len(result)
    /\ pc = "drain" => result \o pbuf = logged
    /\ (pc = "drain" /\ WritersOpen) => ~(exit = "PANIC" /\ site = 417)

\* ---- C12 ----------------------------------------------------------------
\* C12: is_alive returns true only when the remote pwd exited with status
\* 0 within the 10 s timeout; a probe that has not exited in time yields
\* false and no error, a probe that exited nonzero yields false, and a
\* failure to spawn the probe ends the program (OSERR, line 271).
C12_IsAliveVerdict ==
    op = "is_alive" =>
      /\ probeRun.kind \in {"ran", "spawn_err"}
      /\ Running =>
           ret = Bool(/\ probeRun.kind = "ran"
                      /\ probeRun.after < PROBE_TIMEOUT
                      /\ probeRun.code = 0)
      /\ (probeRun.kind = "ran" /\ probeRun.after >= PROBE_TIMEOUT)
           => Running /\ ret = Bool(FALSE)
      /\ (probeRun.kind = "ran" /\ probeRun.code # 0)
           => Running /\ ret = Bool(FALSE)
      /\ probeRun.kind = "spawn_err"
           => exit = "OSERR" /\ site = 271 /\ ret = Pending

\* A probe that would have exited 0, but only after the timeout: false.
C12_Witness ==
    /\ op = "is_alive" /\ Running
    /\ probeRun.kind = "ran" /\ probeRun.code = 0
    /\ probeRun.after >= PROBE_TIMEOUT
    /\ ret = Bool(FALSE)

\* ---- C13 ----------------------------------------------------------------
\* C13: construction on a config of the supported target with platform
\* qemu and no qemu segment or no ssh segment does not return a driver,
\* and when it has ended the program (for another reason than no port
\* being free, line 328) the exit status is the configuration error.
C13_MissingSegmentIsConfigError ==
    (/\ op = "new" /\ Trim(cfg.platform) = <<"qemu">>
     /\ cfg.os = "linux" /\ cfg.arch = "amd64"
     /\ (~cfg.qemu.some \/ ~cfg.ssh.some))
      => /\ pc # "idle"
         /\ (~Running /\ site # 328) => exit = "CONFIG"

\* ---- C14 ----------------------------------------------------------------
\* C14: of several driver instances constructed and booted in any
\* interleaving, no two that have been constructed hold the same host
\* port.
C14_PortsUnique ==
    \A d \in Drivers : \A e \in Drivers \ {d} :
      (fleet[d].stage \in {"built", "booted", "clash"}
       /\ fleet[e].stage \in {"built", "booted", "clash"})
        => fleet[d].port # fleet[e].port

\* ---- C15 ----------------------------------------------------------------
\* C15: every wait of boot, is_alive, run_cmd and try_collect_crash on a
\* subprocess is bounded by a timeout: while an operation is in progress
\* and the program runs, the driver can take its next step whether or not
\* the subprocess it waits for exits.
C15_WaitsAreBounded ==
    (Running /\ pc # "idle") => ENABLED Driver

\* ---- C16 ----------------------------------------------------------------
\* C16: whenever the driver discards the reader of an active session, the
\* process of that session has been killed or seen to have exited (the two
\* halves go together) and the log has been read to its end: the pipe
\* holds no unread byte when its read end is closed.
C16_DrainedBeforeDiscard ==
    [][(rp # None /\ rp' = None)
         => /\ pbuf = <<>>
            /\ rp \in released']_vars

\* C16 as amended: whenever the driver discards the reader of an active
\* session, the process of that session has been killed or seen to have
\* exited; in try_collect_crash the log has then been read to its end (the
\* pipe holds no unread byte); in boot the reader is discarded unread.
C16_DrainedOnCollect ==
    [][(rp # None /\ rp' = None)
         => /\ rp \in released'
            /\ op \in {"boot", "try_collect_crash"}
            /\ op = "try_collect_crash" => pbuf = <<>> /\ handle = None
            /\ op = "boot" => handle = rp /\ pc = "boot_drop"]_vars

\* A session released by try_collect_crash with a report that is not empty.
C16_Witness ==
    /\ op = "try_collect_crash" /\ pc = "idle" /\ ~timedOut
    /\ ret.kind = "Some" /\ ret.s # <<>>
    /\ handle = None /\ rp = None /\ released # {}

\* ---- C17 ----------------------------------------------------------------
\* Where an environment failure ends the program: a kill that fails (206,
\* 238), the pipe and its configuration (388, 389, 397, 399), try_clone
\* (215), a spawn that fails (222, 271, 297, 380), a read that fails (241,
\* 311, 424).
EnvFailureSites ==
    {206, 238, 388, 389, 397, 399, 215, 222, 271, 297, 380, 241, 311, 424}

\* The categorized exit statuses (exitcode::CONFIG, OSERR, DATAERR,
\* TEMPFAIL).
Categorized == {"CONFIG", "OSERR", "DATAERR", "TEMPFAIL"}

\* C17: every environment failure (of a spawn, a kill, the pipe's
\* configuration, a read; those of run_cmd's remote copy and of
\* read_until_block among them) ends the program with a categorized exit
\* status.
C17_FailuresAreCategorized ==
    (~Running /\ site \in EnvFailureSites) => exit \in Categorized

\* ---- C18 ----------------------------------------------------------------
\* C18: no step of boot, is_alive, run_cmd or try_collect_crash changes
\* the port, the address, the key path, the remote user, the boot wait or
\* the VM command template: they stay what construction made of the
\* config and the leased port; and the steps of is_alive and of run_cmd
\* leave the session (handle and reader) as it is.
C18_ConnectionDataFixed ==
    [][/\ conf' = conf
       /\ conf = SelfOf(conf.port, cfg.ssh.key_path,
                        UnwrapOr(cfg.qemu.wait_boot_time,
                                 DEFAULT_WAIT_BOOT_TIME))
       /\ op' \in {"is_alive", "run_cmd"}
            => handle' = handle /\ rp' = rp]_vars

\* run_cmd has returned on the session of a second boot, which it left in
\* place.
C18_Witness ==
    /\ op = "run_cmd" /\ pc = "idle" /\ ret.kind = "Child"
    /\ nspawn > 1 /\ handle = nspawn /\ rp = nspawn
    /\ conf = SelfOf(10022, "/id_rsa", 5)

\* ---- C19 ----------------------------------------------------------------
\* C19: whenever no operation is in progress (after construction and after
\* every call that has returned), the process handle is present iff the
\* log reader is present, and the two then belong to the same session.
C19_PairedBetweenCalls ==
    pc = "idle" => Paired /\ handle = rp

\* try_collect_crash has returned None on a session, which stays whole.
C19_Witness ==
    /\ pc = "idle" /\ op = "try_collect_crash" /\ ret = NoCrash
    /\ handle # None /\ rp # None

\* ---- C20 ----------------------------------------------------------------
\* The VM processes the driver has spawned and has neither killed nor seen
\* to have exited.
Unreleased == {p \in 1..nspawn : p \notin released}

\* C20: in every reachable state at most one VM process has been spawned
\* by the driver and neither killed nor seen to have exited; there is none
\* when boot is about to spawn a new one (the stored one was killed, lines
\* 204-206) and none when boot has ended the program for a guest that
\* never answered (the new one was killed, lines 236-238).
C20_OneLiveVm ==
    /\ Cardinality(Unreleased) <= 1
    /\ Unreleased \subseteq {handle, bhandle}
    /\ pc = "boot_spawn" => Unreleased = {}
    /\ (op = "boot" /\ exit = "DATAERR") => Unreleased = {}

\* The VM of a second boot runs while the VM it replaces, killed, has not
\* gone away yet.
C20_Witness ==
    /\ op = "boot" /\ pc = "boot_delay" /\ nspawn > 1
    /\ oldh \in released /\ pstate[oldh] = "signalled"
    /\ Unreleased = {bhandle} /\ pstate[bhandle] = "running"

====
